---- MODULE Spec2Model ----
(***************************************************************************)
(* multi-mono-font: glyph mappings, font descriptors, the multi-font text  *)
(* style (builder, draw_string, draw_whitespace, measure_string) and the   *)
(* StaticText layout, modelled from the Rust sources.                      *)
(*                                                                         *)
(* Characters are their Unicode code points (integers); a string is a      *)
(* sequence of characters; a Point is a record [x, y]; Option values are   *)
(* either the string "None" or the value itself.                           *)
(***************************************************************************)
EXTENDS Integers, Sequences, FiniteSets, TLC

VARIABLES
    mapping,    \* the StrGlyphMapping under test: [data, replacement_index]
    mq,         \* the character queried, the last query made and what it returned: [op, c, ret]
    gfont,      \* the MultiMonoFont whose glyph() is under test
    gq,         \* the character looked up and what glyph() returned: [op, c, ret]
    builder,    \* the MultiMonoTextStyleBuilder: [style, given]; given is the line
                \* height policy most recently given to it (NoPolicy before any)
    built,      \* the style last returned by build() or new(), with its policy
    largs,      \* the arguments of MultiMonoTextStyle::new: [font_list, line_height]
    lhq,        \* what TextRenderer::line_height() last returned: [op, ret]
    style,      \* the MultiMonoTextStyle the text operations are called on
    targs,      \* the arguments of the call: [text, position, baseline]
    tq,         \* the last text operation, its own argument (the width of
                \* draw_whitespace, the character of get_font_info) and what it
                \* returned: [op, arg, ret, overflow, err]
    target,     \* the calls the last operation made on the target surface, in order
    stext,      \* the StaticText drawn: [text, rectangle, character_style,
                \* alignment, baseline]
    sq,         \* what StaticText::draw returned: [op, ret, err]; ret is the Ok
                \* value and is read only when err is FALSE
    calls,      \* the calls draw made on the character style, in order:
                \* [op, text, width, position, ret, err]
    adapter,    \* the MultiMonoFontDrawTarget around the surface:
                \* [text_color, background_color]
    aq,         \* the call made on the adapter, its arguments and its result:
                \* [op, area, colors, color, ret]
    faulty_call \* the number of the call on which the target surface returns an
                \* error, counted from 1; 0 for a surface that accepts every call

mappingVars == <<mapping, mq>>
glyphVars == <<gfont, gq>>
builderVars == <<builder, built, largs, lhq>>
textVars == <<style, targs, tq, target>>
staticVars == <<stext, sq, calls>>
adapterVars == <<adapter, aq>>
vars == <<mapping, mq, gfont, gq, builder, built, largs, lhq, style, targs, tq, target,
          stext, sq, calls, faulty_call, adapter, aq>>

(***************************************************************************)
(* Bounds of the model.                                                    *)
(***************************************************************************)
\* longest enumerated mapping string
MaxDataLen == 4
\* longest font list given to MultiMonoTextStyle::new
MaxListLen == 3
\* longest font list given to the builder's font()
MaxBuilderListLen == 2
\* longest font list of a style that text is drawn or measured with
MaxStyleFonts == 2
\* longest text drawn or measured
MaxTextLen == 2
\* longest text laid out by StaticText
MaxStaticLen == 3
\* longest colour sequence given to fill_contiguous
MaxColorsLen == 4

(***************************************************************************)
(* mapping.rs: StrGlyphMapping                                             *)
(***************************************************************************)
\* '\0', the escape marker that starts a range
NUL == 0

\* StrGlyphMapping::new
new(data, replacement_index) ==
    [data |-> data, replacement_index |-> replacement_index]

\* a plausible slip: start..end, the end character left out
RangeExclusive(start, end) ==
    IF start >= end THEN <<>>
    ELSE [i \in 1..(end - start) |-> start + (i - 1)]

\* char has no value in U+D800..=U+DFFF (the surrogates): a range of char
\* steps over them
SurrogateFirst == 55296
SurrogateLast == 57343

\* start..=end as the characters it iterates over (empty when start > end):
\* the surrogates between start and end are stepped over, the successor of the
\* character before them being the one after them
RangeInclusive(start, end) ==
    IF start > end THEN <<>>
    ELSE IF start < SurrogateFirst /\ end > SurrogateLast
         THEN [i \in 1..((end - start + 1) - (SurrogateLast - SurrogateFirst + 1)) |->
                  IF start + (i - 1) >= SurrogateFirst
                  THEN start + (i - 1) + (SurrogateLast - SurrogateFirst + 1)
                  ELSE start + (i - 1)]
         ELSE [i \in 1..(end - start + 1) |-> start + (i - 1)]

\* The segments of a mapping string, in declaration order: the match on
\* chars.next()? shared by ranges() and chars().  A '\0' that is not followed by
\* two characters ends the iteration (the ? operator returns None).
RECURSIVE segments_from(_, _)
segments_from(data, i) ==
    IF i > Len(data) THEN <<>>
    ELSE IF data[i] = NUL
         THEN IF i + 2 > Len(data) THEN <<>>
              ELSE <<[start |-> data[i + 1], end |-> data[i + 2]]>>
                       \o segments_from(data, i + 3)
         ELSE <<[start |-> data[i], end |-> data[i]]>> \o segments_from(data, i + 1)

segments(m) == segments_from(m.data, 1)

\* StrGlyphMapping::chars: the ranges of the string, flattened
RECURSIVE chars_from(_, _)
chars_from(data, i) ==
    IF i > Len(data) THEN <<>>
    ELSE IF data[i] = NUL
         THEN IF i + 2 > Len(data) THEN <<>>
              ELSE RangeInclusive(data[i + 1], data[i + 2]) \o chars_from(data, i + 3)
         ELSE RangeInclusive(data[i], data[i]) \o chars_from(data, i + 1)

chars(m) == chars_from(m.data, 1)

\* StrGlyphMapping::ranges from the i-th character of the string on, index
\* being idx: [pairs, overflow].  index += end as usize - start as usize + 1 is
\* usize arithmetic: when end < start the subtraction leaves usize, so a build
\* with overflow checks panics there (overflow = TRUE) and a build without
\* them continues with the wrapped value; start_index is then given by the
\* integer it is congruent to modulo 2^usize::BITS.
RECURSIVE ranges_from(_, _, _)
ranges_from(data, i, idx) ==
    IF i > Len(data) THEN [pairs |-> <<>>, overflow |-> FALSE]
    ELSE IF data[i] = NUL
         THEN IF i + 2 > Len(data) THEN [pairs |-> <<>>, overflow |-> FALSE]
              ELSE LET rest == ranges_from(data, i + 3,
                                           idx + (data[i + 2] - data[i + 1] + 1))
                   IN  [pairs |-> <<[start_index |-> idx,
                                     range |-> [start |-> data[i + 1],
                                                end |-> data[i + 2]]]>> \o rest.pairs,
                        overflow |-> rest.overflow \/ data[i + 2] < data[i + 1]]
         ELSE LET rest == ranges_from(data, i + 1, idx + 1)
              IN  [pairs |-> <<[start_index |-> idx,
                                range |-> [start |-> data[i], end |-> data[i]]]>>
                                 \o rest.pairs,
                   overflow |-> rest.overflow]

\* StrGlyphMapping::ranges: the (start_index, range) pairs in the order the
\* iterator yields them
ranges(m) == ranges_from(m.data, 1, 0)

\* a plausible slip: looks the character up in the raw string, not in chars()
contains_raw(m, c) == \E k \in 1..Len(m.data) : m.data[k] = c

\* StrGlyphMapping::contains: self.chars().any(|v| v == c)
contains(m, c) ==
    LET cs == chars(m)
    IN  \E k \in 1..Len(cs) : cs[k] = c

\* a plausible slip: the position in the raw string instead of in chars()
index_raw(m, c) ==
    LET hits == {k \in 1..Len(m.data) : m.data[k] = c}
    IN  IF hits = {} THEN m.replacement_index
        ELSE (CHOOSE k \in hits : \A j \in hits : k <= j) - 1

\* StrGlyphMapping::index: the enumerate() position of the first match of find,
\* or the replacement index
index(m, c) ==
    LET cs == chars(m)
        hits == {k \in 1..Len(cs) : cs[k] = c}
    IN  IF hits = {} THEN m.replacement_index
        ELSE (CHOOSE k \in hits : \A j \in hits : k <= j) - 1

(***************************************************************************)
(* The mappings and characters the mapping operations are applied to.      *)
(***************************************************************************)
\* characters of the enumerated mapping strings: '\0', 'a', 'b', 'c'
Alphabet == {NUL, 97, 98, 99}

\* every string over Alphabet of length at most n
Strings(n) == UNION {[1..k -> Alphabet] : k \in 0..n}

\* "abcdef1234" and its range form "\0af\014" (module documentation)
DocListData == <<97, 98, 99, 100, 101, 102, 49, 50, 51, 52>>
DocRangeData == <<NUL, 97, 102, NUL, 49, 52>>

\* ranges from the last character before the surrogates to the first one
\* after them, "\0\u{D7FF}\u{E000}", alone, followed by 'a' and by the range
\* a..=c, and preceded by 'a'; and a string ending inside a range escape
\* after such a range
SurrogateData ==
    LET across == <<NUL, SurrogateFirst - 1, SurrogateLast + 1>>
    IN  {across, across \o <<97>>, across \o <<NUL, 97, 99>>, <<97>> \o across,
         across \o <<98, NUL, 97>>}

MappingData == Strings(MaxDataLen) \cup {DocListData, DocRangeData} \cup SurrogateData

\* replacement indices: 0 (NULL_FONT, doc tests) and '?' - ' ' (ASCII)
ReplacementIndices == {0, 31}

\* characters queried: the alphabet, the documented ranges and 'z'
QueryChars == Alphabet \cup (97..102) \cup (49..52) \cup {122}

\* mapping.contains(c)
Contains ==
    /\ mq' = [op |-> "contains", c |-> mq.c, ret |-> contains(mapping, mq.c)]
    /\ UNCHANGED <<mapping, glyphVars, builderVars, textVars, staticVars, faulty_call,
                 adapterVars>>

\* mapping.index(c)
Index ==
    /\ mq' = [op |-> "index", c |-> mq.c, ret |-> index(mapping, mq.c)]
    /\ UNCHANGED <<mapping, glyphVars, builderVars, textVars, staticVars, faulty_call,
                 adapterVars>>

\* mapping.ranges(), collected
Ranges ==
    /\ mq' = [op |-> "ranges", c |-> mq.c, ret |-> ranges(mapping)]
    /\ UNCHANGED <<mapping, glyphVars, builderVars, textVars, staticVars, faulty_call,
                 adapterVars>>

(***************************************************************************)
(* char_size.rs, lib.rs: CharSize, MultiMonoFont, glyph                    *)
(***************************************************************************)
\* Point::new
Point(x, y) == [x |-> x, y |-> y]

\* Size::new
Size(width, height) == [width |-> width, height |-> height]

\* Rectangle::new
Rectangle(top_left, size) == [top_left |-> top_left, size |-> size]

\* Rectangle::zero
RectangleZero == Rectangle(Point(0, 0), Size(0, 0))

\* CharSize::new
CharSize(width, height) == [width |-> width, height |-> height]

\* MultiMonoFont; of the image only its pixel width (image.size().width) is read
MultiMonoFont(image_width, character_size, character_spacing, baseline, glyph_mapping) ==
    [image_width |-> image_width,
     character_size |-> character_size,
     character_spacing |-> character_spacing,
     baseline |-> baseline,
     glyph_mapping |-> glyph_mapping]

\* NULL_FONT: ImageRaw::new(&[], 1), CharSize::zero(), the empty mapping
NULL_FONT == MultiMonoFont(1, CharSize(0, 0), 0, 0, new(<<>>, 0))

\* The sub image glyph() returns, as [panic, area].  The integer division by
\* glyphs_per_row panics when the divisor is 0; all values stay far below 2^31
\* for the fonts enumerated here, so the u32 arithmetic and the casts to i32 are exact.
GlyphArea(font, glyph_index, glyphs_per_row) ==
    IF glyphs_per_row = 0 THEN [panic |-> TRUE, area |-> RectangleZero]
    ELSE LET row == glyph_index \div glyphs_per_row
             char_x == (glyph_index - (row * glyphs_per_row)) * font.character_size.width
             char_y == row * font.character_size.height
         IN  [panic |-> FALSE,
              area |-> Rectangle(Point(char_x, char_y),
                                 Size(font.character_size.width,
                                      font.character_size.height))]

\* a plausible slip: the guard tests only the image width, not width == 0
glyph_unguarded(font, c) ==
    IF font.image_width < font.character_size.width
    THEN [panic |-> FALSE, area |-> RectangleZero]
    ELSE GlyphArea(font, index(font.glyph_mapping, c),
                   IF font.character_size.width = 0 THEN 0
                   ELSE font.image_width \div font.character_size.width)

\* MultiMonoFont::glyph
glyph(font, c) ==
    IF \/ font.character_size.width = 0
       \/ font.image_width < font.character_size.width
    THEN [panic |-> FALSE, area |-> RectangleZero]
    ELSE GlyphArea(font, index(font.glyph_mapping, c),
                   font.image_width \div font.character_size.width)

\* the fonts glyph() is applied to: atlas widths 1 (NULL_FONT), 6, 20 and 96 pixels,
\* cells 0, 6 and 8 wide and 0, 9 and 12 high, three mappings
GlyphFonts ==
    {MultiMonoFont(iw, CharSize(w, h), 0, 0, new(d, r)) :
        iw \in {1, 6, 20, 96}, w \in {0, 6, 8}, h \in {0, 9, 12},
        d \in {<<>>, DocListData, DocRangeData}, r \in ReplacementIndices}

\* font.glyph(c)
Glyph ==
    /\ gq' = [op |-> "glyph", c |-> gq.c, ret |-> glyph(gfont, gq.c)]
    /\ UNCHANGED <<gfont, mappingVars, builderVars, textVars, staticVars, faulty_call,
                 adapterVars>>

(***************************************************************************)
(* multi_mono_text_style.rs: line height, MultiMonoTextStyleBuilder        *)
(***************************************************************************)
\* ChSzTy is u8 (the default build): ChSzTy::MIN and ChSzTy::MAX
ChSzTyMIN == 0
ChSzTyMAX == 255

\* MultiMonoLineHeight
Max == [kind |-> "Max"]
Min == [kind |-> "Min"]
Specify(h) == [kind |-> "Specify", h |-> h]

\* no policy was given to the builder yet (MultiMonoTextStyleBuilder::new)
NoPolicy == [kind |-> "None"]

\* the while loop of the Max arm; idx counts from 0, fonts[idx] is fonts[idx + 1] here
RECURSIVE MaxLoop(_, _, _)
MaxLoop(fonts, idx, max) ==
    IF idx < Len(fonts)
    THEN LET h == fonts[idx + 1].character_size.height
         IN  MaxLoop(fonts, idx + 1, IF h > max THEN h ELSE max)
    ELSE max

\* the while loop of the Min arm
RECURSIVE MinLoop(_, _, _)
MinLoop(fonts, idx, min) ==
    IF idx < Len(fonts)
    THEN LET h == fonts[idx + 1].character_size.height
         IN  MinLoop(fonts, idx + 1, IF h < min THEN h ELSE min)
    ELSE min

\* a plausible slip: both loops start from ChSzTy::MIN
get_line_height_from_min(fonts_height, fonts) ==
    CASE fonts_height.kind = "Max" -> MaxLoop(fonts, 0, ChSzTyMIN)
      [] fonts_height.kind = "Min" -> MinLoop(fonts, 0, ChSzTyMIN)
      [] fonts_height.kind = "Specify" -> fonts_height.h

\* get_line_height
get_line_height(fonts_height, fonts) ==
    CASE fonts_height.kind = "Max" -> MaxLoop(fonts, 0, ChSzTyMIN)
      [] fonts_height.kind = "Min" -> MinLoop(fonts, 0, ChSzTyMAX)
      [] fonts_height.kind = "Specify" -> fonts_height.h

\* MultiMonoTextStyle
MultiMonoTextStyle(text_color, background_color, fonts, line_height) ==
    [text_color |-> text_color,
     background_color |-> background_color,
     fonts |-> fonts,
     line_height |-> line_height]

\* MultiMonoTextStyleBuilder::new
builder_new ==
    MultiMonoTextStyle("None", "None", <<NULL_FONT>>, 0)

\* a plausible slip: font() keeps the line height the builder already had
font_keeps_height(self, font_list, line_height) ==
    LET fonts == IF Len(font_list) = 0 THEN <<NULL_FONT>> ELSE font_list
    IN  MultiMonoTextStyle(self.text_color, self.background_color, fonts,
                           self.line_height)

\* MultiMonoTextStyleBuilder::font
font(self, font_list, line_height) ==
    LET fonts == IF Len(font_list) = 0 THEN <<NULL_FONT>> ELSE font_list
    IN  MultiMonoTextStyle(self.text_color, self.background_color, fonts,
                           get_line_height(line_height, fonts))

\* MultiMonoTextStyleBuilder::reset_text_color
reset_text_color(self) == [self EXCEPT !.text_color = "None"]

\* MultiMonoTextStyleBuilder::reset_background_color
reset_background_color(self) == [self EXCEPT !.background_color = "None"]

\* MultiMonoTextStyleBuilder::text_color
text_color(self, color) == [self EXCEPT !.text_color = color]

\* MultiMonoTextStyleBuilder::line_height
builder_line_height(self, line_height) ==
    [self EXCEPT !.line_height = get_line_height(line_height, self.fonts)]

\* MultiMonoTextStyleBuilder::background_color
background_color(self, color) == [self EXCEPT !.background_color = color]

\* text_color(color) when a colour is given, else the builder as it is
text_or_not(self, color) == IF color = "None" THEN self ELSE text_color(self, color)

\* background_color(color) when a colour is given, else the builder as it is
background_or_not(self, color) ==
    IF color = "None" THEN self ELSE background_color(self, color)

\* MultiMonoTextStyle::new: the builder chain new().font().text_color().build()
style_new(font_list, line_height, color) ==
    text_color(font(builder_new, font_list, line_height), color)

\* TextRenderer::line_height
line_height(self) == self.line_height

\* fonts that differ in cell height (12, 32, 24), spacing, baseline and mapping
Font6x12 == MultiMonoFont(96, CharSize(6, 12), 0, 9, new(<<97, 98>>, 0))
Font16x32 == MultiMonoFont(64, CharSize(16, 32), 1, 25, new(<<NUL, 98, 99>>, 1))
Font12x24 == MultiMonoFont(48, CharSize(12, 24), 2, 18, new(<<99, 100>>, 0))

\* the line height policies given
Policies == {Max, Min, Specify(20)}

\* colours of the pixel surface
TextColors == {"Yellow"}
BackgroundColors == {"Blue"}

\* every font list over fs of length at most n (the empty list included)
FontLists(fs, n) == UNION {[1..k -> fs] : k \in 0..n}

\* MultiMonoTextStyleBuilder::new()
BuilderNew ==
    /\ builder' = [style |-> builder_new, given |-> NoPolicy]
    /\ UNCHANGED <<built, largs, lhq, mappingVars, glyphVars, textVars, staticVars, faulty_call,
                 adapterVars>>

\* builder.font(font_list, line_height)
BuilderFont(font_list, policy) ==
    /\ builder' = [style |-> font(builder.style, font_list, policy), given |-> policy]
    /\ UNCHANGED <<built, largs, lhq, mappingVars, glyphVars, textVars, staticVars, faulty_call,
                 adapterVars>>

\* builder.line_height(line_height)
BuilderLineHeight(policy) ==
    /\ builder' = [style |-> builder_line_height(builder.style, policy),
                   given |-> policy]
    /\ UNCHANGED <<built, largs, lhq, mappingVars, glyphVars, textVars, staticVars, faulty_call,
                 adapterVars>>

\* builder.text_color(color)
BuilderTextColor(color) ==
    /\ builder' = [builder EXCEPT !.style = text_color(builder.style, color)]
    /\ UNCHANGED <<built, largs, lhq, mappingVars, glyphVars, textVars, staticVars, faulty_call,
                 adapterVars>>

\* builder.background_color(color)
BuilderBackgroundColor(color) ==
    /\ builder' = [builder EXCEPT !.style = background_color(builder.style, color)]
    /\ UNCHANGED <<built, largs, lhq, mappingVars, glyphVars, textVars, staticVars, faulty_call,
                 adapterVars>>

\* builder.reset_text_color()
BuilderResetTextColor ==
    /\ builder' = [builder EXCEPT !.style = reset_text_color(builder.style)]
    /\ UNCHANGED <<built, largs, lhq, mappingVars, glyphVars, textVars, staticVars, faulty_call,
                 adapterVars>>

\* builder.reset_background_color()
BuilderResetBackgroundColor ==
    /\ builder' = [builder EXCEPT !.style = reset_background_color(builder.style)]
    /\ UNCHANGED <<built, largs, lhq, mappingVars, glyphVars, textVars, staticVars, faulty_call,
                 adapterVars>>

\* builder.build()
BuilderBuild ==
    /\ built' = builder
    /\ UNCHANGED <<builder, largs, lhq, mappingVars, glyphVars, textVars, staticVars, faulty_call,
                 adapterVars>>

\* MultiMonoTextStyleBuilder::from(&style), style a style built before
BuilderFrom ==
    /\ builder' = built
    /\ UNCHANGED <<built, largs, lhq, mappingVars, glyphVars, textVars, staticVars, faulty_call,
                 adapterVars>>

\* MultiMonoTextStyle::new(font_list, line_height, text_color)
StyleNew ==
    /\ \E color \in TextColors :
           built' = [style |-> style_new(largs.font_list, largs.line_height, color),
                     given |-> largs.line_height]
    /\ lhq' = [op |-> "new", ret |-> 0]
    /\ UNCHANGED <<builder, largs, mappingVars, glyphVars, textVars, staticVars, faulty_call,
                 adapterVars>>

\* style.line_height() on the style new() returned
StyleLineHeight ==
    /\ lhq.op # "none"
    /\ lhq' = [op |-> "line_height", ret |-> line_height(built.style)]
    /\ UNCHANGED <<builder, built, largs, mappingVars, glyphVars, textVars, staticVars, faulty_call,
                 adapterVars>>

(***************************************************************************)
(* multi_mono_text_style.rs: font resolution, drawing and measuring        *)
(***************************************************************************)
\* ChSzTy::saturating_sub, u32::saturating_sub
saturating_sub(a, b) == IF a >= b THEN a - b ELSE 0

\* a + b in ChSzTy (u8): [value, overflow].  When the sum exceeds ChSzTy::MAX a
\* build with overflow checks panics at the addition (overflow = TRUE) and a
\* build without them continues with the wrapped value.
ChSzTyAdd(a, b) ==
    [value |-> (a + b) % (ChSzTyMAX + 1), overflow |-> a + b > ChSzTyMAX]

\* the for loop of get_font_info, from the k-th font on
RECURSIVE FontLoop(_, _, _)
FontLoop(fonts, k, c) ==
    IF k > Len(fonts) THEN fonts[1]
    ELSE IF contains(fonts[k].glyph_mapping, c) THEN fonts[k]
         ELSE FontLoop(fonts, k + 1, c)

\* a plausible slip: the fallback is the last font of the list
get_font_info_last(self, c) ==
    IF \E k \in 1..Len(self.fonts) : contains(self.fonts[k].glyph_mapping, c)
    THEN FontLoop(self.fonts, 1, c)
    ELSE self.fonts[Len(self.fonts)]

\* MultiMonoTextStyle::get_font_info
get_font_info(self, c) == FontLoop(self.fonts, 1, c)

\* MultiMonoTextStyle::is_transparent
is_transparent(self) == self.text_color = "None" /\ self.background_color = "None"

\* MultiMonoTextStyle::baseline_offset
baseline_offset(self, baseline, fnt) ==
    CASE baseline = "Top" -> 0
      [] baseline = "Bottom" -> saturating_sub(fnt.character_size.height, 1)
      [] baseline = "Middle" -> saturating_sub(fnt.character_size.height, 1) \div 2
      [] baseline = "Alphabetic" -> fnt.baseline

\* Image::new(&glyph, draw_pos).draw(&mut target) as the call the adapter
\* receives: the glyph's atlas area drawn at draw_pos, "on" pixels in colour on,
\* "off" pixels in colour off ("None": such pixels are not forwarded)
ImageDraw(area, draw_pos, on, off) ==
    [op |-> "image", area |-> area, at |-> draw_pos, on |-> on, off |-> off]

\* target.fill_solid(&area, color) as it reaches the surface
FillSolid(area, color) ==
    [op |-> "fill_solid", area |-> area, at |-> area.top_left, on |-> color, off |-> color]

\* A run on the target surface is [next_pos, writes, err]: the cursor, the
\* calls made on the surface so far and whether the last of them returned an
\* error.  The surface returns an error on its fail_at-th call, counted from
\* the first call of the run, and accepts every other call.

\* a call w on the target followed by `?`
Issue(acc, w, fail_at) ==
    [next_pos |-> acc.next_pos,
     writes |-> Append(acc.writes, w),
     err |-> Len(acc.writes) + 1 = fail_at]

\* Image::new(&glyph, draw_pos).draw(&mut target)? for the character c
DrawGlyph(self, c, fnt, baseline, on, off, fail_at, acc) ==
    Issue(acc,
          ImageDraw(glyph(fnt, c).area,
                    Point(acc.next_pos.x,
                          acc.next_pos.y - baseline_offset(self, baseline, fnt)),
                    on, off),
          fail_at)

\* next_pos.x += dx, reached when no call before it returned an error
AdvanceX(acc, dx) ==
    IF acc.err THEN acc ELSE [acc EXCEPT !.next_pos.x = @ + dx]

\* the spacing strip: if self.background_color.is_some() { target.fill_solid(..)? }
SpacingStrip(self, fnt, off, fail_at, acc) ==
    IF acc.err \/ self.background_color = "None" THEN acc
    ELSE Issue(acc,
               FillSolid(Rectangle(acc.next_pos,
                                   Size(fnt.character_spacing, self.line_height)),
                         off),
               fail_at)

\* a plausible slip: the cursor advances by the spacing only when the strip is
\* filled
SpacingWhenFilled(self, fnt, off, fail_at, acc) ==
    IF acc.err \/ ~(fnt.character_spacing > 0) \/ self.background_color = "None"
    THEN acc
    ELSE AdvanceX(SpacingStrip(self, fnt, off, fail_at, acc), fnt.character_spacing)

\* if font.character_spacing > 0 { .. next_pos.x += font.character_spacing }
Spacing(self, fnt, off, fail_at, acc) ==
    IF acc.err \/ ~(fnt.character_spacing > 0) THEN acc
    ELSE AdvanceX(SpacingStrip(self, fnt, off, fail_at, acc), fnt.character_spacing)

\* the body of the for loop of draw_string_binary for the character c
DrawChar(self, c, fnt, baseline, on, off, fail_at, acc) ==
    Spacing(self, fnt, off, fail_at,
        AdvanceX(DrawGlyph(self, c, fnt, baseline, on, off, fail_at, acc),
                 fnt.character_size.width))

\* the for loop of draw_string_binary from the k-th character on; on and off
\* are the colours of the adapter around the target
RECURSIVE DrawLoop(_, _, _, _, _, _, _, _)
DrawLoop(self, text, k, baseline, on, off, fail_at, acc) ==
    IF k > Len(text) \/ acc.err THEN acc
    ELSE DrawLoop(self, text, k + 1, baseline, on, off, fail_at,
             DrawChar(self, text[k], get_font_info(self, text[k]), baseline,
                      on, off, fail_at, acc))

\* MultiMonoTextStyle::draw_string_binary, target being the adapter with the
\* colours on and off
draw_string_binary(self, text, position, baseline, on, off, fail_at) ==
    DrawLoop(self, text, 1, baseline, on, off, fail_at,
             [next_pos |-> position, writes |-> <<>>, err |-> FALSE])

\* the for loop of measure_string from the k-th character on; acc is
\* [bb_width, bb_height, baseline_max, font, overflow]
RECURSIVE MeasureLoop(_, _, _, _, _)
MeasureLoop(self, text, k, baseline, acc) ==
    IF k > Len(text) THEN acc
    ELSE LET fnt == get_font_info(self, text[k])
             adv == ChSzTyAdd(fnt.character_size.width, fnt.character_spacing)
             off == baseline_offset(self, baseline, fnt)
         IN  MeasureLoop(self, text, k + 1, baseline,
                 [bb_width |-> acc.bb_width + adv.value,
                  bb_height |-> IF fnt.character_size.height > acc.bb_height
                                THEN fnt.character_size.height ELSE acc.bb_height,
                  baseline_max |-> IF off > acc.baseline_max THEN off
                                   ELSE acc.baseline_max,
                  font |-> fnt,
                  overflow |-> acc.overflow \/ adv.overflow])

\* TextRenderer::measure_string: TextMetrics, and whether an addition overflowed
measure_string(self, text, position, baseline) ==
    LET acc == MeasureLoop(self, text, 1, baseline,
                   [bb_width |-> 0, bb_height |-> 0, baseline_max |-> 0,
                    font |-> self.fonts[1], overflow |-> FALSE])
        bb_width == saturating_sub(acc.bb_width, acc.font.character_spacing)
        bb_size == Size(bb_width, acc.bb_height)
        bb_position == Point(position.x, position.y - acc.baseline_max)
    IN  [bounding_box |-> Rectangle(bb_position, bb_size),
         next_position |-> Point(position.x + bb_size.width, position.y),
         overflow |-> acc.overflow]

\* what a call on the style returns, from the run r it made on the target:
\* [ret, writes, overflow, err]; ret is the Ok value and is read only when err
\* is FALSE
Returned(r) ==
    [ret |-> r.next_pos, writes |-> r.writes, overflow |-> FALSE, err |-> r.err]

\* a plausible slip: the transparent arm returns the position it was given
draw_string_stays(self, text, position, baseline, fail_at) ==
    IF is_transparent(self)
    THEN [ret |-> position, writes |-> <<>>, overflow |-> FALSE, err |-> FALSE]
    ELSE Returned(draw_string_binary(self, text, position, baseline,
                                     self.text_color, self.background_color, fail_at))

\* the (None, None) arm of draw_string: the measured width is added
MeasuredAdvance(position, tm) ==
    [ret |-> Point(position.x + tm.bounding_box.size.width, position.y),
     writes |-> <<>>,
     overflow |-> tm.overflow,
     err |-> FALSE]

\* TextRenderer::draw_string.  The adapter is Both, Foreground or Background
\* according to the colours that are set; with no colour nothing is drawn.
draw_string(self, text, position, baseline, fail_at) ==
    IF self.text_color = "None" /\ self.background_color = "None"
    THEN MeasuredAdvance(position, measure_string(self, text, position, baseline))
    ELSE Returned(draw_string_binary(self, text, position, baseline,
                                     self.text_color, self.background_color, fail_at))

\* a plausible slip: the Bottom offset is the whole line height
WhitespaceOffsetWhole(self, baseline) ==
    CASE baseline = "Top" -> 0
      [] baseline = "Bottom" -> self.line_height
      [] baseline = "Middle" -> saturating_sub(self.line_height, 1) \div 2
      [] baseline = "Alphabetic" -> self.fonts[1].baseline

\* (offet_y, height) of draw_whitespace
WhitespaceOffset(self, baseline) ==
    CASE baseline = "Top" -> 0
      [] baseline = "Bottom" -> saturating_sub(self.line_height, 1)
      [] baseline = "Middle" -> saturating_sub(self.line_height, 1) \div 2
      [] baseline = "Alphabetic" -> self.fonts[1].baseline

WhitespaceHeight(self, baseline) ==
    IF baseline = "Alphabetic"
    THEN self.fonts[1].character_size.height
    ELSE self.line_height

\* the fill of draw_whitespace and what it then returns; position is the
\* position already moved up by offet_y
WhitespaceFill(self, width, position, offet_y, height, fail_at) ==
    [ret |-> Point(position.x + width, position.y + offet_y),
     writes |-> IF width # 0 /\ self.background_color # "None"
                THEN <<FillSolid(Rectangle(position, Size(width, height)),
                                 self.background_color)>>
                ELSE <<>>,
     overflow |-> FALSE,
     err |-> width # 0 /\ self.background_color # "None" /\ fail_at = 1]

\* TextRenderer::draw_whitespace
draw_whitespace(self, width, position, baseline, fail_at) ==
    WhitespaceFill(self, width,
                   Point(position.x, position.y - WhitespaceOffset(self, baseline)),
                   WhitespaceOffset(self, baseline),
                   WhitespaceHeight(self, baseline), fail_at)

\* Baseline
Baselines == {"Top", "Bottom", "Middle", "Alphabetic"}

\* the characters of the texts: 'a', 'b', 'c' and 'z', which no font claims
TextChars == {97, 98, 99, 122}

\* every text over TextChars of length at most n
Texts(n) == UNION {[1..k -> TextChars] : k \in 0..n}

\* the styles the builder gives for the font lists, two policies and the four
\* colour configurations
Styles(n) ==
    {background_or_not(text_or_not(font(builder_new, fl, p), tc), bc) :
        fl \in FontLists({Font6x12, Font16x32}, n),
        p \in {Max, Specify(20)},
        tc \in TextColors \cup {"None"},
        bc \in BackgroundColors \cup {"None"}}

\* a font whose cell width and spacing are large values of ChSzTy
Font200x8 == MultiMonoFont(200, CharSize(200, 8), 100, 6, new(<<122>>, 0))

\* the styles measured: font lists with small and large cells
MeasureStyles(n) ==
    {text_or_not(font(builder_new, fl, Max), tc) :
        fl \in FontLists({Font6x12, Font16x32, Font200x8}, n) \ {<<>>},
        tc \in TextColors}

\* Each behaviour makes one call on the style, on a surface nothing was drawn
\* on yet: tq.op = "none" until the call is made.

\* style.get_font_info(c)
GetFontInfo(c) ==
    /\ tq.op = "none"
    /\ tq' = [op |-> "get_font_info", arg |-> c, ret |-> get_font_info(style, c),
              overflow |-> FALSE, err |-> FALSE]
    /\ UNCHANGED <<target, style, targs, mappingVars, glyphVars, builderVars, staticVars, faulty_call,
                 adapterVars>>

\* style.draw_string(text, position, baseline, target)
DrawString ==
    LET r == draw_string(style, targs.text, targs.position, targs.baseline, faulty_call)
    IN  /\ tq.op = "none"
        /\ tq' = [op |-> "draw_string", arg |-> 0, ret |-> r.ret,
                  overflow |-> r.overflow, err |-> r.err]
        /\ target' = r.writes
        /\ UNCHANGED <<style, targs, mappingVars, glyphVars, builderVars, staticVars, faulty_call,
                 adapterVars>>

\* style.draw_whitespace(width, position, baseline, target)
DrawWhitespace(width) ==
    LET r == draw_whitespace(style, width, targs.position, targs.baseline, faulty_call)
    IN  /\ tq.op = "none"
        /\ tq' = [op |-> "draw_whitespace", arg |-> width, ret |-> r.ret,
                  overflow |-> r.overflow, err |-> r.err]
        /\ target' = r.writes
        /\ UNCHANGED <<style, targs, mappingVars, glyphVars, builderVars, staticVars, faulty_call,
                 adapterVars>>

\* style.measure_string(text, position, baseline)
MeasureString ==
    LET r == measure_string(style, targs.text, targs.position, targs.baseline)
    IN  /\ tq.op = "none"
        /\ tq' = [op |-> "measure_string", arg |-> 0,
                  ret |-> [bounding_box |-> r.bounding_box,
                           next_position |-> r.next_position],
                  overflow |-> r.overflow, err |-> FALSE]
        /\ UNCHANGED <<target, style, targs, mappingVars, glyphVars, builderVars, staticVars, faulty_call,
                 adapterVars>>

(***************************************************************************)
(* StaticText (static_text.rs): a text laid out in a rectangle.            *)
(***************************************************************************)
\* the line feed and the carriage return
LF == 10
CR == 13

\* StaticText::with_style
with_style(text, rectangle, character_style, alignment, baseline) ==
    [text |-> text, rectangle |-> rectangle, character_style |-> character_style,
     alignment |-> alignment, baseline |-> baseline]

\* StaticText::new: Left alignment and the Alphabetic baseline
new_static(text, rectangle, character_style) ==
    with_style(text, rectangle, character_style, "Left", "Alphabetic")

\* i32 division, which truncates toward zero (b > 0)
TruncDiv(a, b) == IF a >= 0 THEN a \div b ELSE -((-a) \div b)

\* text.matches('\n').count()
line_feed_count(text) == Cardinality({i \in 1..Len(text) : text[i] = LF})

\* text.split('\n') from the k-th character on; cur is the line being read
RECURSIVE split_from(_, _, _)
split_from(text, k, cur) ==
    IF k > Len(text) THEN <<cur>>
    ELSE IF text[k] = LF THEN <<cur>> \o split_from(text, k + 1, <<>>)
    ELSE split_from(text, k + 1, Append(cur, text[k]))

split(text) == split_from(text, 1, <<>>)

\* the closure mapped over the lines, from the k-th line on: position is the
\* running position, whose y grows by the line height after each line
RECURSIVE LinesLoop(_, _, _, _)
LinesLoop(self, ls, k, position) ==
    IF k > Len(ls) THEN <<>>
    ELSE LET line == ls[k]
             metrics == measure_string(self.character_style, line, Point(0, 0),
                                       self.baseline)
             p == CASE self.alignment = "Left" -> position
                    [] self.alignment = "Right" ->
                         Point(position.x + self.rectangle.size.width
                                   - (metrics.next_position.x - 1),
                               position.y + 0 - (metrics.next_position.y - 0))
                    [] self.alignment = "Center" ->
                         Point(position.x + self.rectangle.size.width \div 2
                                   - TruncDiv(metrics.next_position.x - 1, 2),
                               position.y + 0 - TruncDiv(metrics.next_position.y - 0, 2))
             len == Len(line)
             stripped == IF len > 0 /\ line[len] = CR
                         THEN SubSeq(line, 1, len - 1)
                         ELSE line
         IN  <<[line |-> stripped, p |-> p]>>
             \o LinesLoop(self, ls, k + 1,
                    Point(position.x,
                          position.y + line_height(self.character_style)))

\* a plausible slip: the offset is one line height whatever the number of
\* line feeds
lines_one_line_height(self) ==
    LET offset_y == line_height(self.character_style)
        height == self.rectangle.size.height
        top_left == self.rectangle.top_left
        position ==
            CASE self.baseline = "Top" -> top_left
              [] self.baseline \in {"Bottom", "Alphabetic"} ->
                   Point(top_left.x, top_left.y + (height - 1 - offset_y))
              [] self.baseline = "Middle" ->
                   Point(top_left.x, top_left.y + TruncDiv(height - 1 - offset_y, 2))
    IN  LinesLoop(self, split(self.text), 1, position)

\* StaticText::lines: the lines with the position each is drawn at
lines(self) ==
    LET line_feed == line_feed_count(self.text)
        offset_y == line_height(self.character_style) * line_feed
        height == self.rectangle.size.height
        top_left == self.rectangle.top_left
        position ==
            CASE self.baseline = "Top" -> top_left
              [] self.baseline \in {"Bottom", "Alphabetic"} ->
                   Point(top_left.x, top_left.y + (height - 1 - offset_y))
              [] self.baseline = "Middle" ->
                   Point(top_left.x, top_left.y + TruncDiv(height - 1 - offset_y, 2))
    IN  LinesLoop(self, split(self.text), 1, position)

\* A run of draw is [next_position, calls, writes, err]: the variable
\* next_position, the calls made on the character style, the calls these made on
\* the surface, and whether the call made last returned an error.

\* the run after a call on the character style returned r = [ret, writes, err, ..]
Called(acc, op, text, width, position, r) ==
    [next_position |-> acc.next_position,
     calls |-> Append(acc.calls, [op |-> op, text |-> text, width |-> width,
                                  position |-> position, ret |-> r.ret,
                                  err |-> r.err]),
     writes |-> acc.writes \o r.writes,
     err |-> r.err]

\* self.character_style.draw_whitespace(width, position, self.baseline, target)?
Whitespace(self, width, position, fail_at, acc) ==
    Called(acc, "draw_whitespace", <<>>, width, position,
           draw_whitespace(self.character_style, width, position, self.baseline,
                           fail_at - Len(acc.writes)))

\* a plausible slip: the result of the leading pad is dropped, not propagated
LeadingUnchecked(self, position, left_x, fail_at, acc) ==
    IF position.x > left_x
    THEN [Whitespace(self, position.x - left_x, Point(left_x, position.y),
                     fail_at, acc) EXCEPT !.err = FALSE]
    ELSE acc

\* the leading pad: if position.x > left_x
Leading(self, position, left_x, fail_at, acc) ==
    IF position.x > left_x
    THEN Whitespace(self, position.x - left_x, Point(left_x, position.y),
                    fail_at, acc)
    ELSE acc

\* next_position = what the call made last returned, unless it was an error
AssignNextPosition(acc) ==
    IF acc.err THEN acc
    ELSE [acc EXCEPT !.next_position = acc.calls[Len(acc.calls)].ret]

\* next_position = self.character_style.draw_string(line, position, ..)?
DrawnString(self, line, position, fail_at, acc) ==
    IF acc.err THEN acc
    ELSE AssignNextPosition(
             Called(acc, "draw_string", line, 0, position,
                    draw_string(self.character_style, line, position,
                                self.baseline, fail_at - Len(acc.writes))))

\* a plausible slip: next_position keeps the end of the line after the pad
AssignRightXForgotten(acc, right_x) == acc

\* next_position.x = right_x, reached when the trailing pad returned no error
AssignRightX(acc, right_x) ==
    IF acc.err THEN acc ELSE [acc EXCEPT !.next_position.x = right_x]

\* a plausible slip: the trailing pad is also made when the line ends at right_x
TrailingAtRightX(self, right_x, fail_at, acc) ==
    IF acc.err THEN acc
    ELSE IF acc.next_position.x <= right_x
    THEN AssignRightX(
             Whitespace(self, right_x - acc.next_position.x, acc.next_position,
                        fail_at, acc),
             right_x)
    ELSE acc

\* the trailing pad: if next_position.x < right_x
Trailing(self, right_x, fail_at, acc) ==
    IF acc.err THEN acc
    ELSE IF acc.next_position.x < right_x
    THEN AssignRightX(
             Whitespace(self, right_x - acc.next_position.x, acc.next_position,
                        fail_at, acc),
             right_x)
    ELSE acc

\* the for loop of draw from the k-th line on
RECURSIVE StaticDrawLoop(_, _, _, _, _, _, _)
StaticDrawLoop(self, ls, k, left_x, right_x, fail_at, acc) ==
    IF k > Len(ls) \/ acc.err THEN acc
    ELSE StaticDrawLoop(self, ls, k + 1, left_x, right_x, fail_at,
             Trailing(self, right_x, fail_at,
                 DrawnString(self, ls[k].line, ls[k].p, fail_at,
                     Leading(self, ls[k].p, left_x, fail_at, acc))))

\* Drawable::draw
draw(self, fail_at) ==
    LET left_x == self.rectangle.top_left.x
        right_x == left_x + self.rectangle.size.width
    IN  StaticDrawLoop(self, lines(self), 1, left_x, right_x, fail_at,
            [next_position |-> Point(0, 0), calls |-> <<>>, writes |-> <<>>,
             err |-> FALSE])

\* the horizontal alignments
Alignments == {"Left", "Center", "Right"}

\* the characters of the laid out texts: line feed, carriage return, 'a', 'c'
StaticChars == {LF, CR, 97, 99}

\* every text over StaticChars of length at most n
StaticTexts(n) == UNION {[1..k -> StaticChars] : k \in 0..n}

\* styles of one and of two fonts in the four colour configurations
StaticStyles ==
    {background_or_not(text_or_not(font(builder_new, fl, Max), tc), bc) :
        fl \in {<<Font6x12>>, <<Font16x32, Font6x12>>},
        tc \in TextColors \cup {"None"},
        bc \in BackgroundColors \cup {"None"}}

\* rectangles narrower and wider than the lines, of even and odd width
StaticRectangles ==
    {Rectangle(Point(2, 1), sz) : sz \in {Size(0, 12), Size(10, 30), Size(41, 70)}}

\* text.draw(target); each behaviour draws the text once, on a surface
\* nothing was drawn on yet
StaticDraw ==
    LET r == draw(stext, faulty_call)
    IN  /\ sq.op = "none"
        /\ sq' = [op |-> "draw", ret |-> r.next_position, err |-> r.err]
        /\ calls' = r.calls
        /\ target' = r.writes
        /\ UNCHANGED <<stext, faulty_call, style, targs, tq, mappingVars, glyphVars,
                       builderVars, adapterVars>>

(***************************************************************************)
(* draw_target.rs: the adapter from binary colours to the surface's.       *)
(***************************************************************************)
\* MultiMonoFontDrawTarget::new, parent being the target surface
MultiMonoFontDrawTarget(tc, bc) == [text_color |-> tc, background_color |-> bc]

\* the number of points of a rectangle
PointCount(area) == area.size.width * area.size.height

\* the i-th point of a rectangle, row by row from the top left
PointAt(area, i) ==
    Point(area.top_left.x + ((i - 1) % area.size.width),
          area.top_left.y + ((i - 1) \div area.size.width))

\* colors.into_iter().into_pixels(area): the colours paired with the points of
\* the area, as far as both last
into_pixels(colors, area) ==
    [i \in 1..(IF Len(colors) < PointCount(area) THEN Len(colors)
                ELSE PointCount(area)) |->
        [pos |-> PointAt(area, i), color |-> colors[i]]]

\* the closure of .filter
Forwarded(self, pixel) == pixel.color = "On" \/ self.background_color # "None"

\* the closure of .map
Coloured(self, pixel) ==
    [pos |-> pixel.pos,
     color |-> IF pixel.color = "On" THEN self.text_color
               ELSE IF self.background_color # "None" THEN self.background_color
               ELSE self.text_color]

\* the pixels fill_contiguous hands to parent.draw_iter
ForwardedPixels(self, pixels) ==
    LET kept == SelectSeq(pixels, LAMBDA px : Forwarded(self, px))
    IN  [i \in 1..Len(kept) |-> Coloured(self, kept[i])]

\* a call on the parent surface and what it returns: the surface returns an
\* error on its fail_at-th call
ParentCall(w, fail_at) ==
    [writes |-> <<w>>, ret |-> IF fail_at = 1 THEN "Err" ELSE "Ok"]

\* a plausible slip: every pixel is forwarded, none is filtered out
fill_contiguous_unfiltered(self, area, colors, fail_at) ==
    ParentCall([op |-> "draw_iter",
                pixels |-> [i \in 1..Len(into_pixels(colors, area)) |->
                               Coloured(self, into_pixels(colors, area)[i])]],
               fail_at)

\* MultiMonoFontDrawTarget::fill_contiguous: [writes, ret]
fill_contiguous(self, area, colors, fail_at) ==
    ParentCall([op |-> "draw_iter",
                pixels |-> ForwardedPixels(self, into_pixels(colors, area))],
               fail_at)

\* MultiMonoFontDrawTarget::fill_solid: [writes, ret]
fill_solid(self, area, color, fail_at) ==
    CASE color = "On" -> ParentCall(FillSolid(area, self.text_color), fail_at)
      [] color = "Off" ->
           IF self.background_color # "None"
           THEN ParentCall(FillSolid(area, self.background_color), fail_at)
           ELSE [writes |-> <<>>, ret |-> "Ok"]

\* BinaryColor
BinaryColors == {"On", "Off"}

\* every colour sequence of length at most n
ColorSeqs(n) == UNION {[1..k -> BinaryColors] : k \in 0..n}

\* areas of four, three and no points
AdapterAreas ==
    {Rectangle(Point(1, 2), Size(2, 2)), Rectangle(Point(0, 0), Size(3, 1)),
     RectangleZero}

\* adapter.fill_contiguous(&area, colors); each behaviour makes one call
FillContiguous ==
    LET r == fill_contiguous(adapter, aq.area, aq.colors, faulty_call)
    IN  /\ aq.op = "none"
        /\ aq' = [aq EXCEPT !.op = "fill_contiguous", !.ret = r.ret]
        /\ target' = r.writes
        /\ UNCHANGED <<adapter, faulty_call, style, targs, tq, mappingVars, glyphVars,
                       builderVars, staticVars>>

\* adapter.fill_solid(&area, color)
AdapterFillSolid ==
    LET r == fill_solid(adapter, aq.area, aq.color, faulty_call)
    IN  /\ aq.op = "none"
        /\ aq' = [aq EXCEPT !.op = "fill_solid", !.ret = r.ret]
        /\ target' = r.writes
        /\ UNCHANGED <<adapter, faulty_call, style, targs, tq, mappingVars, glyphVars,
                       builderVars, staticVars>>

(***************************************************************************)
(* Specifications: one per component, the other components left idle.      *)
(***************************************************************************)
\* the values of the variables of a component that is not exercised
IdleMapping == new(<<>>, 0)
IdleMq == [op |-> "none", c |-> NUL, ret |-> 0]
IdleGq == [op |-> "none", c |-> NUL, ret |-> [panic |-> FALSE, area |-> RectangleZero]]
IdleBuilder == [style |-> builder_new, given |-> NoPolicy]
IdleLargs == [font_list |-> <<>>, line_height |-> Max]
IdleLhq == [op |-> "none", ret |-> 0]
IdleTargs == [text |-> <<>>, position |-> Point(0, 0), baseline |-> "Top"]
IdleTq == [op |-> "none", arg |-> 0, ret |-> Point(0, 0), overflow |-> FALSE,
           err |-> FALSE]
IdleStext == new_static(<<>>, RectangleZero, builder_new)
IdleAdapter == MultiMonoFontDrawTarget("Yellow", "None")
IdleAq == [op |-> "none", area |-> RectangleZero, colors |-> <<>>, color |-> "On",
           ret |-> "Ok"]
IdleSq == [op |-> "none", ret |-> Point(0, 0), err |-> FALSE]

\* a mapping string, a replacement index and the character to query
MappingInit ==
    /\ mapping \in {new(d, r) : d \in MappingData, r \in ReplacementIndices}
    /\ \E c \in QueryChars : mq = [op |-> "none", c |-> c, ret |-> 0]
    /\ gfont = NULL_FONT
    /\ gq = IdleGq
    /\ builder = IdleBuilder
    /\ built = IdleBuilder
    /\ largs = IdleLargs
    /\ lhq = IdleLhq
    /\ stext = IdleStext
    /\ sq = IdleSq
    /\ calls = <<>>
    /\ faulty_call = 0
    /\ adapter = IdleAdapter
    /\ aq = IdleAq
    /\ style = builder_new
    /\ targs = IdleTargs
    /\ tq = IdleTq
    /\ target = <<>>

MappingNext ==
    \/ Contains
    \/ Index
    \/ Ranges

SpecMapping == MappingInit /\ [][MappingNext]_vars

\* a font and the character whose glyph is looked up
GlyphInit ==
    /\ gfont \in GlyphFonts \cup {NULL_FONT}
    /\ \E c \in {97, 100, 102, 49, 52, 122} :
           gq = [op |-> "none", c |-> c, ret |-> [panic |-> FALSE, area |-> RectangleZero]]
    /\ mapping = IdleMapping
    /\ mq = IdleMq
    /\ builder = IdleBuilder
    /\ built = IdleBuilder
    /\ largs = IdleLargs
    /\ lhq = IdleLhq
    /\ stext = IdleStext
    /\ sq = IdleSq
    /\ calls = <<>>
    /\ faulty_call = 0
    /\ adapter = IdleAdapter
    /\ aq = IdleAq
    /\ style = builder_new
    /\ targs = IdleTargs
    /\ tq = IdleTq
    /\ target = <<>>

GlyphNext == Glyph

SpecGlyph == GlyphInit /\ [][GlyphNext]_vars

\* the arguments MultiMonoTextStyle::new is called with
LineHeightInit ==
    /\ largs \in [font_list : FontLists({Font6x12, Font16x32, Font12x24}, MaxListLen),
                  line_height : Policies]
    /\ builder = IdleBuilder
    /\ built = IdleBuilder
    /\ lhq = IdleLhq
    /\ style = builder_new
    /\ targs = IdleTargs
    /\ tq = IdleTq
    /\ target = <<>>
    /\ mapping = IdleMapping
    /\ mq = IdleMq
    /\ gfont = NULL_FONT
    /\ gq = IdleGq
    /\ stext = IdleStext
    /\ sq = IdleSq
    /\ calls = <<>>
    /\ faulty_call = 0
    /\ adapter = IdleAdapter
    /\ aq = IdleAq

LineHeightNext ==
    \/ StyleNew
    \/ StyleLineHeight

SpecLineHeight == LineHeightInit /\ [][LineHeightNext]_vars

\* the builder starts as MultiMonoTextStyleBuilder::new(); nothing is built yet
BuilderInit ==
    /\ builder = [style |-> builder_new, given |-> NoPolicy]
    /\ built = IdleBuilder
    /\ largs = IdleLargs
    /\ lhq = IdleLhq
    /\ stext = IdleStext
    /\ sq = IdleSq
    /\ calls = <<>>
    /\ faulty_call = 0
    /\ adapter = IdleAdapter
    /\ aq = IdleAq
    /\ style = builder_new
    /\ targs = IdleTargs
    /\ tq = IdleTq
    /\ target = <<>>
    /\ mapping = IdleMapping
    /\ mq = IdleMq
    /\ gfont = NULL_FONT
    /\ gq = IdleGq

BuilderNext ==
    \/ BuilderNew
    \/ \E fl \in FontLists({Font6x12, Font16x32}, MaxBuilderListLen), p \in Policies :
           BuilderFont(fl, p)
    \/ \E p \in Policies : BuilderLineHeight(p)
    \/ \E c \in TextColors : BuilderTextColor(c)
    \/ \E c \in BackgroundColors : BuilderBackgroundColor(c)
    \/ BuilderResetTextColor
    \/ BuilderResetBackgroundColor
    \/ BuilderBuild
    \/ BuilderFrom

SpecBuilder == BuilderInit /\ [][BuilderNext]_vars

\* a style, a text, a position and a baseline
TextInit ==
    /\ style \in Styles(MaxStyleFonts)
    /\ targs \in [text : Texts(MaxTextLen), position : {Point(3, 5)},
                  baseline : Baselines]
    /\ tq = IdleTq
    /\ target = <<>>
    /\ mapping = IdleMapping
    /\ mq = IdleMq
    /\ gfont = NULL_FONT
    /\ gq = IdleGq
    /\ builder = IdleBuilder
    /\ built = IdleBuilder
    /\ largs = IdleLargs
    /\ lhq = IdleLhq
    /\ stext = IdleStext
    /\ sq = IdleSq
    /\ calls = <<>>
    /\ faulty_call = 0
    /\ adapter = IdleAdapter
    /\ aq = IdleAq

TextNext ==
    \/ \E c \in TextChars : GetFontInfo(c)
    \/ DrawString
    \/ \E width \in {0, 4} : DrawWhitespace(width)
    \/ MeasureString

SpecText == TextInit /\ [][TextNext]_vars

\* a style, a text, a position and a baseline to measure
MeasureInit ==
    /\ style \in MeasureStyles(MaxStyleFonts)
    /\ targs \in [text : Texts(MaxTextLen), position : {Point(3, 5)},
                  baseline : Baselines]
    /\ tq = IdleTq
    /\ target = <<>>
    /\ mapping = IdleMapping
    /\ mq = IdleMq
    /\ gfont = NULL_FONT
    /\ gq = IdleGq
    /\ builder = IdleBuilder
    /\ built = IdleBuilder
    /\ largs = IdleLargs
    /\ lhq = IdleLhq
    /\ stext = IdleStext
    /\ sq = IdleSq
    /\ calls = <<>>
    /\ faulty_call = 0
    /\ adapter = IdleAdapter
    /\ aq = IdleAq

MeasureNext == MeasureString

SpecMeasure == MeasureInit /\ [][MeasureNext]_vars

\* an adapter with or without a background colour, an area, the colours and
\* the colour of the call, on a surface that accepts the call or not
AdapterInit ==
    /\ adapter \in {MultiMonoFontDrawTarget(tc, bc) :
                       tc \in TextColors, bc \in BackgroundColors \cup {"None"}}
    /\ aq \in [op : {"none"}, area : AdapterAreas, colors : ColorSeqs(MaxColorsLen),
               color : BinaryColors, ret : {"Ok"}]
    /\ faulty_call \in {0, 1}
    /\ target = <<>>
    /\ style = builder_new
    /\ targs = IdleTargs
    /\ tq = IdleTq
    /\ mapping = IdleMapping
    /\ mq = IdleMq
    /\ gfont = NULL_FONT
    /\ gq = IdleGq
    /\ builder = IdleBuilder
    /\ built = IdleBuilder
    /\ largs = IdleLargs
    /\ lhq = IdleLhq
    /\ stext = IdleStext
    /\ sq = IdleSq
    /\ calls = <<>>

AdapterNext ==
    \/ FillContiguous
    \/ AdapterFillSolid

SpecAdapter == AdapterInit /\ [][AdapterNext]_vars

\* a text, a rectangle, a style, an alignment and a baseline
StaticInit ==
    /\ stext \in {with_style(t, r, cs, al, bl) :
                     t \in StaticTexts(MaxStaticLen), r \in StaticRectangles,
                     cs \in StaticStyles, al \in Alignments, bl \in Baselines}
    /\ sq = IdleSq
    /\ calls = <<>>
    /\ faulty_call = 0
    /\ adapter = IdleAdapter
    /\ aq = IdleAq
    /\ target = <<>>
    /\ style = builder_new
    /\ targs = IdleTargs
    /\ tq = IdleTq
    /\ mapping = IdleMapping
    /\ mq = IdleMq
    /\ gfont = NULL_FONT
    /\ gq = IdleGq
    /\ builder = IdleBuilder
    /\ built = IdleBuilder
    /\ largs = IdleLargs
    /\ lhq = IdleLhq

StaticNext == StaticDraw

SpecStatic == StaticInit /\ [][StaticNext]_vars

\* a text drawn on a surface that returns an error on one of its first calls
FaultyInit ==
    /\ stext \in {with_style(t, r, cs, al, bl) :
                     t \in StaticTexts(MaxStaticLen),
                     r \in {Rectangle(Point(2, 1), Size(10, 30)),
                            Rectangle(Point(2, 1), Size(41, 70))},
                     cs \in {st \in StaticStyles : ~is_transparent(st)},
                     al \in Alignments, bl \in {"Alphabetic"}}
    /\ faulty_call \in {1, 2, 3, 5}
    /\ adapter = IdleAdapter
    /\ aq = IdleAq
    /\ sq = IdleSq
    /\ calls = <<>>
    /\ target = <<>>
    /\ style = builder_new
    /\ targs = IdleTargs
    /\ tq = IdleTq
    /\ mapping = IdleMapping
    /\ mq = IdleMq
    /\ gfont = NULL_FONT
    /\ gq = IdleGq
    /\ builder = IdleBuilder
    /\ built = IdleBuilder
    /\ largs = IdleLargs
    /\ lhq = IdleLhq

SpecStaticFaulty == FaultyInit /\ [][StaticNext]_vars

(***************************************************************************)
(* Claims about the glyph mapping (checked under SpecMapping).             *)
(***************************************************************************)
\* some segment (single character or inclusive range) of m matches c
Claimed(m, c) ==
    \E k \in 1..Len(segments(m)) :
        segments(m)[k].start <= c /\ c <= segments(m)[k].end

\* every range of m is written with start <= end
WellFormedRanges(m) ==
    \A k \in 1..Len(segments(m)) : segments(m)[k].start <= segments(m)[k].end

\* the characters of the segments of m written out one by one, in order (the
\* surrogate code points are no characters)
RECURSIVE ListedFrom(_, _)
ListedFrom(segs, k) ==
    IF k > Len(segs) THEN <<>>
    ELSE SelectSeq([i \in 1..(segs[k].end - segs[k].start + 1) |->
                        segs[k].start + (i - 1)],
                   LAMBDA ch : ch < SurrogateFirst \/ ch > SurrogateLast)
             \o ListedFrom(segs, k + 1)

\* the mapping that lists the characters of m one by one, same replacement index
ListedOneByOne(m) == new(ListedFrom(segments(m), 1), m.replacement_index)

\* C3 as stated: index(c) = n for the n-th (0-based) character c that chars()
\* produces, for every mapping and every claimed character.
C3_IndexIsEveryCharsPosition ==
    (mq.op = "index" /\ Claimed(mapping, mq.c)) =>
        \A n \in 1..Len(chars(mapping)) :
            chars(mapping)[n] = mq.c => mq.ret = n - 1

\* C3 amended: for every claimed character c, index(c) is the 0-based position
\* of the FIRST occurrence of c in the chars() enumeration (so the n-th character
\* of chars() has index n unless chars() produced it before).
C3_IndexIsFirstCharsPosition ==
    (mq.op = "index" /\ Claimed(mapping, mq.c)) =>
        /\ mq.ret + 1 \in 1..Len(chars(mapping))
        /\ chars(mapping)[mq.ret + 1] = mq.c
        /\ \A j \in 1..mq.ret : chars(mapping)[j] # mq.c

\* C3 witness: index('1') = 6 in "\0af\014", the 7th character of chars()
C3_Witness ==
    /\ mapping.data = DocRangeData
    /\ mq = [op |-> "index", c |-> 49, ret |-> 6]
    /\ chars(mapping)[7] = 49

\* C4: contains(c) is true exactly when some segment matches c; for a character
\* no segment matches, contains(c) is false and index(c) is the replacement index.
C4_UnclaimedGetsReplacement ==
    /\ mq.op = "contains" => (mq.ret = Claimed(mapping, mq.c))
    /\ (mq.op = "index" /\ ~Claimed(mapping, mq.c)) =>
           mq.ret = mapping.replacement_index

\* C4 witness: 'z' in "\0af\014" with replacement index 31
C4_Witness ==
    /\ mapping = new(DocRangeData, 31)
    /\ mq = [op |-> "index", c |-> 122, ret |-> 31]
    /\ ~contains(mapping, 122)

\* C5 as stated: a mapping whose ranges have start <= end agrees, on index and
\* contains, with the mapping that lists the same characters one by one.
C5_RangeFormEqualsListedForm ==
    WellFormedRanges(mapping) =>
        /\ mq.op = "index" => mq.ret = index(ListedOneByOne(mapping), mq.c)
        /\ mq.op = "contains" => mq.ret = contains(ListedOneByOne(mapping), mq.c)

\* C5 amended: the same, provided none of the listed characters is '\0' itself
\* (a '\0' written as a single character starts a range instead).
C5_RangeFormEqualsListedFormNoNul ==
    (/\ WellFormedRanges(mapping)
     /\ \A k \in 1..Len(ListedOneByOne(mapping).data) :
            ListedOneByOne(mapping).data[k] # NUL) =>
        /\ mq.op = "index" => mq.ret = index(ListedOneByOne(mapping), mq.c)
        /\ mq.op = "contains" => mq.ret = contains(ListedOneByOne(mapping), mq.c)

\* C5 witness: index('4') = 9 in "\0af\014", as in "abcdef1234"
C5_Witness ==
    /\ mapping.data = DocRangeData
    /\ ListedOneByOne(mapping).data = DocListData
    /\ mq = [op |-> "index", c |-> 52, ret |-> 9]

\* the characters of the first k ranges of the pairs ranges() produced, in
\* the order chars() iterates over them
RECURSIVE CharsOfRanges(_, _)
CharsOfRanges(pairs, k) ==
    IF k = 0 THEN <<>>
    ELSE CharsOfRanges(pairs, k - 1)
             \o RangeInclusive(pairs[k].range.start, pairs[k].range.end)

\* ranges() and chars() describe the same index assignment: the ranges of the
\* pairs, in their order, are the ranges chars() flattens and end at the same
\* segment, and each start_index is the number of characters chars() produces
\* before the first character of its range
SameIndexAssignment(m, r) ==
    /\ ~r.overflow
    /\ CharsOfRanges(r.pairs, Len(r.pairs)) = chars(m)
    /\ \A k \in 1..Len(r.pairs) :
           /\ r.pairs[k].start_index = Len(CharsOfRanges(r.pairs, k - 1))
           /\ chars(m)[r.pairs[k].start_index + 1] = r.pairs[k].range.start

\* some range of m starts before the surrogates and ends after them
AcrossSurrogates(m) ==
    \E k \in 1..Len(segments(m)) :
        segments(m)[k].start < SurrogateFirst /\ segments(m)[k].end > SurrogateLast

\* C22 as stated: for every mapping whose ranges have start <= end, ranges()
\* and chars() describe the same index assignment, the ranges in declaration
\* order, also when a range starts before the surrogates U+D800..U+DFFF and
\* ends after them, and a string ending inside a range escape ends both at
\* the same segment
C22_RangesAgreeWithChars ==
    (mq.op = "ranges" /\ WellFormedRanges(mapping)) =>
        SameIndexAssignment(mapping, mq.ret)

\* the same statement for the mappings none of whose ranges has the
\* surrogates between its start and its end
C22_RangesAgreeWithCharsOffSurrogates ==
    (mq.op = "ranges" /\ WellFormedRanges(mapping) /\ ~AcrossSurrogates(mapping)) =>
        SameIndexAssignment(mapping, mq.ret)

\* the case of C22_RangesAgreeWithCharsOffSurrogates: "\0af\014" gives
\* (0, a..=f) and (6, 1..=4), and '1' is the 7th character of chars()
C22_OffSurrogatesCase ==
    /\ mapping.data = DocRangeData
    /\ mq.op = "ranges"
    /\ mq.ret.pairs = <<[start_index |-> 0, range |-> [start |-> 97, end |-> 102]],
                        [start_index |-> 6, range |-> [start |-> 49, end |-> 52]]>>
    /\ chars(mapping)[7] = 49

(***************************************************************************)
(* Claims about the font descriptor (checked under SpecGlyph).             *)
(***************************************************************************)
\* C6: glyph(c) never fails and is the reference rectangle: the zero-area
\* rectangle at the origin when the cell width is 0 or exceeds the atlas width,
\* otherwise the cell at column (i mod glyphs_per_row), row (i div glyphs_per_row)
\* with i = mapping.index(c) and glyphs_per_row = atlas_width div cell_width.
C6_GlyphIsReferenceRectangle ==
    gq.op = "glyph" =>
        LET w == gfont.character_size.width
            h == gfont.character_size.height
            i == index(gfont.glyph_mapping, gq.c)
        IN  /\ ~gq.ret.panic
            /\ IF w = 0 \/ w > gfont.image_width
               THEN gq.ret.area = [top_left |-> [x |-> 0, y |-> 0],
                                   size |-> [width |-> 0, height |-> 0]]
               ELSE gq.ret.area =
                        [top_left |-> [x |-> (i % (gfont.image_width \div w)) * w,
                                       y |-> (i \div (gfont.image_width \div w)) * h],
                         size |-> [width |-> w, height |-> h]]

\* C6 witness: '4' (index 9) in a 20 pixel wide atlas of 6x9 cells: 3 glyphs per
\* row, so row 3, column 0
C6_Witness ==
    /\ gq.op = "glyph"
    /\ gfont.image_width = 20
    /\ gfont.character_size = [width |-> 6, height |-> 9]
    /\ gfont.glyph_mapping.data = DocRangeData
    /\ gq.c = 52
    /\ gq.ret = [panic |-> FALSE,
                 area |-> [top_left |-> [x |-> 0, y |-> 27],
                           size |-> [width |-> 6, height |-> 9]]]

(***************************************************************************)
(* Claims about the line height and the builder (checked under             *)
(* SpecLineHeight and SpecBuilder).                                        *)
(***************************************************************************)
\* the cell heights of the fonts of a list
Heights(fonts) == {fonts[k].character_size.height : k \in 1..Len(fonts)}

\* v is the line height the policy asks for over a non-empty font list
IsAggregate(v, policy, fonts) ==
    CASE policy.kind = "Max" -> v \in Heights(fonts) /\ \A h \in Heights(fonts) : h <= v
      [] policy.kind = "Min" -> v \in Heights(fonts) /\ \A h \in Heights(fonts) : v <= h
      [] policy.kind = "Specify" -> v = policy.h

\* C7: line_height() of a style built from a font list and a policy returns the
\* greatest cell height for Max, the smallest for Min and h for Specify(h)
\* whatever the fonts; heights {12, 32, 24} give 32, 12 and 20 for Specify(20).
C7_LineHeightIsAggregate ==
    lhq.op = "line_height" =>
        /\ Len(largs.font_list) > 0 =>
               IsAggregate(lhq.ret, largs.line_height, largs.font_list)
        /\ largs.line_height.kind = "Specify" => lhq.ret = largs.line_height.h
        /\ Heights(largs.font_list) = {12, 32, 24} =>
               lhq.ret = CASE largs.line_height.kind = "Max" -> 32
                           [] largs.line_height.kind = "Min" -> 12
                           [] largs.line_height.kind = "Specify" -> 20

\* C7 witness: Min over the heights 12, 32, 24 returned 12
C7_Witness ==
    /\ largs = [font_list |-> <<Font6x12, Font16x32, Font12x24>>,
                line_height |-> [kind |-> "Min"]]
    /\ lhq = [op |-> "line_height", ret |-> 12]

\* the font list of b is non-empty and its stored line height is the aggregation
\* of the policy most recently given over that list (0 before any policy)
BuilderConsistent(b) ==
    /\ Len(b.style.fonts) >= 1
    /\ IF b.given = NoPolicy THEN b.style.line_height = 0
       ELSE IsAggregate(b.style.line_height, b.given, b.style.fonts)

\* C8: after any sequence of builder operations the builder's style, and every
\* style built, has a non-empty font list and the line height its latest policy
\* gives over that list; font() replaces the empty list by the sentinel font;
\* the colour operations change neither the font list nor the line height.
C8_BuilderKeepsFontsAndLineHeight ==
    /\ [](BuilderConsistent(builder) /\ BuilderConsistent(built))
    /\ [][(\E p \in Policies : BuilderFont(<<>>, p)) =>
              builder'.style.fonts = <<NULL_FONT>>]_vars
    /\ [][(\/ \E c \in TextColors : BuilderTextColor(c)
           \/ \E c \in BackgroundColors : BuilderBackgroundColor(c)
           \/ BuilderResetTextColor
           \/ BuilderResetBackgroundColor) =>
              /\ builder'.style.fonts = builder.style.fonts
              /\ builder'.style.line_height = builder.style.line_height
              /\ builder'.given = builder.given]_vars

\* C8 witness: a builder derived from a built style was given the empty list
\* (the sentinel font, line height 20 by Specify) while the built style keeps
\* its two fonts, its colours and the smallest height
C8_Witness ==
    /\ builder.style.fonts = <<NULL_FONT>>
    /\ builder.given = [kind |-> "Specify", h |-> 20]
    /\ builder.style.line_height = 20
    /\ builder.style.text_color = "Yellow"
    /\ built.style.fonts = <<Font16x32, Font6x12>>
    /\ built.given = [kind |-> "Min"]
    /\ built.style.line_height = 12
    /\ built.style.text_color = "Yellow"
    /\ built.style.background_color = "Blue"

(***************************************************************************)
(* Claims about font resolution, drawing and measuring (checked under      *)
(* SpecText).                                                              *)
(***************************************************************************)
\* C1 as stated: draw_string returns measure_string(text, position,
\* baseline).next_position, for every style, colour configuration, text and
\* baseline.
C1_DrawReturnsMeasuredNextPosition ==
    tq.op = "draw_string" =>
        tq.ret = measure_string(style, targs.text, targs.position,
                                targs.baseline).next_position

\* the positions in the font list whose mapping has a segment matching c
Claimants(fonts, c) == {k \in 1..Len(fonts) : Claimed(fonts[k].glyph_mapping, c)}

\* the font a character resolves to: the first of the list that claims it,
\* else the first of the list
Resolved(st, c) ==
    IF Claimants(st.fonts, c) = {} THEN st.fonts[1]
    ELSE st.fonts[CHOOSE i \in Claimants(st.fonts, c) :
                      \A j \in Claimants(st.fonts, c) : i <= j]

\* the greatest element of a finite set of naturals, 0 for the empty set
Greatest(S) == IF S = {} THEN 0 ELSE CHOOSE m \in S : \A n \in S : n <= m

\* C2: the font resolved for c is the first font of the list whose mapping
\* contains c (the earlier one when two fonts contain c), and the first font of
\* the list when no mapping contains c; there is always a result.
C2_FirstClaimingFontOrFirst ==
    tq.op = "get_font_info" =>
        IF Claimants(style.fonts, tq.arg) = {}
        THEN tq.ret = style.fonts[1]
        ELSE \E k \in Claimants(style.fonts, tq.arg) :
                 /\ \A j \in Claimants(style.fonts, tq.arg) : k <= j
                 /\ tq.ret = style.fonts[k]

\* C2 witness: 'b' is in both mappings and the earlier font, Font16x32, is chosen
C2_Witness ==
    /\ style.fonts = <<Font16x32, Font6x12>>
    /\ tq.op = "get_font_info"
    /\ tq.arg = 98
    /\ tq.ret = Font16x32
    /\ contains(Font6x12.glyph_mapping, 98)

\* the sum over the characters from the k-th on of the cell width plus the
\* spacing of the character's font
RECURSIVE SumAdvance(_, _, _)
SumAdvance(st, text, k) ==
    IF k > Len(text) THEN 0
    ELSE LET ks == Claimants(st.fonts, text[k])
             f == IF ks = {} THEN st.fonts[1]
                  ELSE st.fonts[CHOOSE i \in ks : \A j \in ks : i <= j]
         IN  f.character_size.width + f.character_spacing + SumAdvance(st, text, k + 1)

\* the measured width of a text: the sum of the advances without the spacing
\* after the last character
MeasuredWidth(st, text) ==
    IF Len(text) = 0 THEN 0
    ELSE LET ks == Claimants(st.fonts, text[Len(text)])
             f == IF ks = {} THEN st.fonts[1]
                  ELSE st.fonts[CHOOSE i \in ks : \A j \in ks : i <= j]
         IN  SumAdvance(st, text, 1) - f.character_spacing

\* C9: with neither a text colour nor a background colour, draw_string and
\* draw_whitespace make no call on the target surface and return the position
\* advanced horizontally: by the measured width of the text, resp. by width.
C9_TransparentStyleWritesNothing ==
    (style.text_color = "None" /\ style.background_color = "None") =>
        /\ target = <<>>
        /\ tq.op = "draw_string" =>
               tq.ret = [x |-> targs.position.x + MeasuredWidth(style, targs.text),
                         y |-> targs.position.y]
        /\ tq.op = "draw_whitespace" =>
               tq.ret = [x |-> targs.position.x + tq.arg, y |-> targs.position.y]

\* C9 witness: "cb" drawn with the transparent two-font style: no call on the
\* surface, the position advanced by 16 + 1 + 6
C9_Witness ==
    /\ style.text_color = "None"
    /\ style.background_color = "None"
    /\ style.fonts = <<Font6x12, Font16x32>>
    /\ targs.text = <<99, 98>>
    /\ tq.op = "draw_string"
    /\ tq.ret = [x |-> targs.position.x + 23, y |-> targs.position.y]
    /\ target = <<>>

\* what draw_whitespace is to do when the line height less one is taken to be
\* less_one: return position + (width, 0) and, when width is not 0 and a
\* background colour is set, make one fill in that colour of the rectangle of
\* size width x height at (position.x, position.y - offset), else no call
WhitespaceAsStated(less_one) ==
    LET offset == CASE targs.baseline = "Top" -> 0
                    [] targs.baseline = "Bottom" -> less_one
                    [] targs.baseline = "Middle" -> TruncDiv(less_one, 2)
                    [] targs.baseline = "Alphabetic" -> style.fonts[1].baseline
        height == IF targs.baseline = "Alphabetic"
                  THEN style.fonts[1].character_size.height
                  ELSE style.line_height
    IN  /\ tq.ret = [x |-> targs.position.x + tq.arg, y |-> targs.position.y]
        /\ IF tq.arg # 0 /\ style.background_color # "None"
           THEN /\ Len(target) = 1
                /\ target[1].op = "fill_solid"
                /\ target[1].on = style.background_color
                /\ target[1].area =
                       [top_left |-> [x |-> targs.position.x,
                                      y |-> targs.position.y - offset],
                        size |-> [width |-> tq.arg, height |-> height]]
           ELSE target = <<>>

\* C16 as stated: the offset is line_height - 1 for Bottom and
\* (line_height - 1) / 2 for Middle, for every line height
C16_WhitespaceFillLineHeightLessOne ==
    tq.op = "draw_whitespace" => WhitespaceAsStated(style.line_height - 1)

\* C16 amended: the offset is line_height - 1, and 0 when the line height is 0,
\* for Bottom, and half of that for Middle
C16_WhitespaceFillSaturating ==
    tq.op = "draw_whitespace" =>
        WhitespaceAsStated(IF style.line_height >= 1 THEN style.line_height - 1 ELSE 0)

\* C16 witness: a pad of width 4 with the Bottom baseline, line height 20 and
\* a background colour: one fill, 19 rows above the position
C16_Witness ==
    /\ tq.op = "draw_whitespace"
    /\ tq.arg = 4
    /\ targs.baseline = "Bottom"
    /\ style.line_height = 20
    /\ style.background_color = "Blue"
    /\ Len(target) = 1
    /\ target[1].area.top_left = [x |-> targs.position.x, y |-> targs.position.y - 19]
    /\ target[1].area.size = [width |-> 4, height |-> 20]

(***************************************************************************)
(* Claims about measure_string (checked under SpecMeasure).                *)
(***************************************************************************)
\* C17 as stated: measure_string makes no call on the surface and returns
\* total_width = sum of (cell width + spacing) of the resolved fonts less the
\* spacing of the last character's font (0 for the empty text), the bounding
\* box at position - (0, greatest baseline offset) of size (total_width,
\* greatest cell height), and next_position = position + (total_width, 0).
C17_MeasureIsSumOfAdvances ==
    tq.op = "measure_string" =>
        LET text == targs.text
            total_width == MeasuredWidth(style, text)
            offsets == {baseline_offset(style, targs.baseline, Resolved(style, text[k])) :
                           k \in 1..Len(text)}
            heights == {Resolved(style, text[k]).character_size.height :
                           k \in 1..Len(text)}
        IN  /\ target = <<>>
            /\ ~tq.overflow
            /\ tq.ret.bounding_box.top_left =
                   [x |-> targs.position.x, y |-> targs.position.y - Greatest(offsets)]
            /\ tq.ret.bounding_box.size =
                   [width |-> total_width, height |-> Greatest(heights)]
            /\ tq.ret.next_position =
                   [x |-> targs.position.x + total_width, y |-> targs.position.y]

\* the same statement for the texts all of whose characters resolve to a font
\* with cell width + spacing within ChSzTy
C17_MeasureIsSumOfAdvancesWithinChSzTy ==
    (\A k \in 1..Len(targs.text) :
         Resolved(style, targs.text[k]).character_size.width
             + Resolved(style, targs.text[k]).character_spacing <= ChSzTyMAX)
        => C17_MeasureIsSumOfAdvances

\* the x the cursor of draw_string_binary is moved by over the text: the cell
\* width and the spacing of each character's font, added as 32-bit integers
DrawnAdvance(st, text, position, baseline) ==
    draw_string_binary(st, text, position, baseline, "Yellow", "None", 0).next_pos.x
        - position.x

\* C21 as stated: for every cell width and spacing in ChSzTy, measure_string
\* adds cell width + spacing per character without wrap-around and without an
\* overflow failure, so that the measured width is the advance draw_string
\* applies less the spacing after the last character
C21_MeasureAddsAsDrawAdvances ==
    tq.op = "measure_string" =>
        LET text == targs.text
            last_spacing == IF Len(text) = 0 THEN 0
                            ELSE get_font_info(style, text[Len(text)]).character_spacing
        IN  /\ ~tq.overflow
            /\ tq.ret.next_position.x - targs.position.x =
                   DrawnAdvance(style, text, targs.position, targs.baseline)
                       - last_spacing

(***************************************************************************)
(* Claims about draw_string (checked under SpecText).                       *)
(***************************************************************************)
\* what C18 says of a call on the surface: of a glyph, the atlas area and
\* where it is drawn; of a strip, its colour, the x it starts at and its width
Drawn(w) ==
    IF w.op = "image"
    THEN [op |-> "image", area |-> w.area, at |-> w.at]
    ELSE [op |-> w.op, colour |-> w.on, x |-> w.area.top_left.x,
          width |-> w.area.size.width]

\* the calls C18 requires for the characters from the k-th on, the cursor being
\* at (x, y), followed by the cursor after the last character
RECURSIVE RequiredWrites(_, _, _)
RequiredWrites(k, x, y) ==
    IF k > Len(targs.text) THEN <<[x |-> x, y |-> y]>>
    ELSE LET f == Resolved(style, targs.text[k])
         IN  <<[op |-> "image", area |-> glyph(f, targs.text[k]).area,
                at |-> [x |-> x, y |-> y - baseline_offset(style, targs.baseline, f)]]>>
             \o (IF f.character_spacing > 0 /\ style.background_color # "None"
                 THEN <<[op |-> "fill_solid", colour |-> style.background_color,
                         x |-> x + f.character_size.width,
                         width |-> f.character_spacing]>>
                 ELSE <<>>)
             \o RequiredWrites(k + 1,
                    x + f.character_size.width + f.character_spacing, y)

\* C18: with a text or a background colour set, draw_string draws for each
\* character in order the glyph of its resolved font at cursor - (0,
\* baseline_offset), advances the cursor by the cell width, fills the spacing
\* strip in the background colour exactly when the spacing is positive and a
\* background colour is set (no call for the strip otherwise), and advances the
\* cursor by the spacing either way; it returns the cursor.
C18_GlyphsStripsAndCursor ==
    (tq.op = "draw_string" /\ ~is_transparent(style)) =>
        [i \in 1..Len(target) |-> Drawn(target[i])] \o <<tq.ret>>
            = RequiredWrites(1, targs.position.x, targs.position.y)

\* C18 witness: "cb" drawn with the fonts 6x12 and 16x32 and a background
\* colour: the glyph of 'c' (16x32, spacing 1), its strip, the glyph of 'b'
\* (6x12, no spacing); the cursor ends 16 + 1 + 6 to the right
C18_Witness ==
    /\ tq.op = "draw_string"
    /\ style.fonts = <<Font6x12, Font16x32>>
    /\ style.background_color = "Blue"
    /\ targs.text = <<99, 98>>
    /\ Len(target) = 3
    /\ target[1].op = "image"
    /\ target[2].op = "fill_solid"
    /\ target[3].op = "image"
    /\ target[3].at.x = targs.position.x + 17
    /\ tq.ret.x = targs.position.x + 23

\* the number of the character whose glyph is the last drawn before the i-th
\* call on the surface
GlyphBefore(i) == Cardinality({h \in 1..i : target[h].op = "image"})

\* C20 as stated: with a background colour set, every spacing strip that
\* draw_string fills has the rows of the glyph drawn before it: its top y is the
\* y the glyph is drawn at and its height is the cell height of the glyph's font.
C20_StripHasTheRowsOfItsGlyph ==
    (tq.op = "draw_string" /\ style.background_color # "None") =>
        \A i \in 1..Len(target) :
            target[i].op = "fill_solid" =>
                /\ i > 1
                /\ target[i - 1].op = "image"
                /\ target[i].area.top_left.y = target[i - 1].at.y
                /\ target[i].area.size.height =
                       Resolved(style, targs.text[GlyphBefore(i)]).character_size.height

(***************************************************************************)
(* Claims about the StaticText layout (checked under SpecStatic).          *)
(***************************************************************************)
\* the width measure_string gives for a line
LineWidth(self, line) ==
    measure_string(self.character_style, line, Point(0, 0), self.baseline).next_position.x

\* C10 as stated: with L the left edge and R the width of the rectangle, a
\* line of measured width W is drawn at x = L for Left, at x = L + R - W for
\* Right and at x = L + (R - W) / 2 for Center.  Stated for the texts without
\* a carriage return, where the line drawn is the line measured.
C10_AnchorXByAlignment ==
    (sq.op = "draw" /\ \A i \in 1..Len(stext.text) : stext.text[i] # CR) =>
        \A i \in 1..Len(calls) :
            calls[i].op = "draw_string" =>
                LET L == stext.rectangle.top_left.x
                    R == stext.rectangle.size.width
                    W == LineWidth(stext, calls[i].text)
                IN  calls[i].position.x =
                        CASE stext.alignment = "Left" -> L
                          [] stext.alignment = "Right" -> L + R - W
                          [] stext.alignment = "Center" -> L + TruncDiv(R - W, 2)

\* the draw_string calls of the draw, in order: one per line
StringCalls == SelectSeq(calls, LAMBDA c : c.op = "draw_string")

\* the number of line feeds of a text
LineFeeds(text) == Cardinality({i \in 1..Len(text) : text[i] = LF})

\* C11: with n line feeds in the text, the first line is anchored at y = top
\* for Top, top + (height - 1 - line_height * n) for Bottom and Alphabetic, and
\* top + (height - 1 - line_height * n) / 2 (i32 division) for Middle; every
\* following line is anchored line_height lower than the line before it, so the
\* last of the n + 1 lines is anchored at the bottom row, top + height - 1, for
\* Bottom and Alphabetic.
C11_AnchorYByBaseline ==
    sq.op = "draw" =>
        LET n == LineFeeds(stext.text)
            lh == stext.character_style.line_height
            top == stext.rectangle.top_left.y
            height == stext.rectangle.size.height
        IN  /\ Len(StringCalls) = n + 1
            /\ StringCalls[1].position.y =
                   CASE stext.baseline = "Top" -> top
                     [] stext.baseline \in {"Bottom", "Alphabetic"} ->
                          top + (height - 1 - lh * n)
                     [] stext.baseline = "Middle" ->
                          top + TruncDiv(height - 1 - lh * n, 2)
            /\ \A k \in 2..Len(StringCalls) :
                   StringCalls[k].position.y = StringCalls[k - 1].position.y + lh
            /\ stext.baseline \in {"Bottom", "Alphabetic"} =>
                   StringCalls[n + 1].position.y = top + height - 1

\* C11 witness: "a\nc" with the Bottom baseline and line height 12 in the
\* rectangle of height 30 at y = 1: the lines are anchored at y = 18 and y = 30
C11_Witness ==
    /\ sq.op = "draw"
    /\ stext.text = <<97, LF, 99>>
    /\ stext.baseline = "Bottom"
    /\ stext.rectangle.size.height = 30
    /\ stext.character_style.line_height = 12
    /\ Len(StringCalls) = 2
    /\ StringCalls[1].position.y = 18
    /\ StringCalls[2].position.y = 30

\* the x at which the layout anchors a line whose measured width is W
AnchorXOfWidth(self, W) ==
    CASE self.alignment = "Left" -> self.rectangle.top_left.x
      [] self.alignment = "Right" ->
           self.rectangle.top_left.x + self.rectangle.size.width - (W - 1)
      [] self.alignment = "Center" ->
           self.rectangle.top_left.x + self.rectangle.size.width \div 2
               - TruncDiv(W - 1, 2)

\* the line without its last character
WithoutLast(line) == SubSeq(line, 1, Len(line) - 1)

\* C12 as stated: for every line that ends in a carriage return, draw_string
\* receives the line without that carriage return, at the anchor computed from
\* the measured width of the line without it.
C12_CarriageReturnStrippedBeforeMeasuring ==
    sq.op = "draw" =>
        \A k \in 1..Len(split(stext.text)) :
            LET line == split(stext.text)[k]
            IN  (Len(line) > 0 /\ line[Len(line)] = CR) =>
                    /\ StringCalls[k].text = WithoutLast(line)
                    /\ StringCalls[k].position.x =
                           AnchorXOfWidth(stext, LineWidth(stext, WithoutLast(line)))

\* what a call record says of the call made: the operation and its arguments
CallMade(c) == [op |-> c.op, text |-> c.text, width |-> c.width, position |-> c.position]

\* the calls C14 requires for the lines from the k-th on, the k-th line being
\* drawn by the draw_string call StringCalls[k] at its anchor
RECURSIVE RequiredCalls(_, _, _)
RequiredCalls(k, left_x, right_x) ==
    IF k > Len(StringCalls) THEN <<>>
    ELSE LET anchor == StringCalls[k].position
             end == StringCalls[k].ret
         IN  (IF anchor.x > left_x
              THEN <<[op |-> "draw_whitespace", text |-> <<>>,
                      width |-> anchor.x - left_x,
                      position |-> [x |-> left_x, y |-> anchor.y]]>>
              ELSE <<>>)
             \o <<CallMade(StringCalls[k])>>
             \o (IF end.x < right_x
                 THEN <<[op |-> "draw_whitespace", text |-> <<>>,
                         width |-> right_x - end.x, position |-> end]>>
                 ELSE <<>>)
             \o RequiredCalls(k + 1, left_x, right_x)

\* the k-th line of the text, without the carriage return it ends in
TextLine(text, k) ==
    LET line == split(text)[k]
    IN  IF Len(line) > 0 /\ line[Len(line)] = CR THEN WithoutLast(line) ELSE line

\* C14: draw draws the lines in text order, one draw_string per line; the calls
\* it makes are, line after line, the leading draw_whitespace (exactly when the
\* anchor is right of the left x; from the left edge, of width anchor.x - left),
\* the draw_string at the anchor, and the trailing draw_whitespace (exactly when
\* draw_string ended left of the right x; from that end, of width right -
\* end.x); each pad ends resp. starts where the line starts resp. ends.
C14_CallsInOrder ==
    sq.op = "draw" =>
        LET left_x == stext.rectangle.top_left.x
            right_x == left_x + stext.rectangle.size.width
        IN  /\ Len(StringCalls) = Len(split(stext.text))
            /\ \A k \in 1..Len(StringCalls) :
                   StringCalls[k].text = TextLine(stext.text, k)
            /\ [i \in 1..Len(calls) |-> CallMade(calls[i])]
                   = RequiredCalls(1, left_x, right_x)
            /\ \A i \in 1..Len(calls) :
                   (calls[i].op = "draw_whitespace" /\ i < Len(calls)
                        /\ calls[i + 1].op = "draw_string"
                        /\ calls[i + 1].position.y = calls[i].position.y) =>
                       calls[i].ret = calls[i + 1].position

\* C14 witness: "a" centred in the rectangle of width 41: a leading pad, the
\* line, a trailing pad
C14_Witness ==
    /\ sq.op = "draw"
    /\ stext.text = <<97>>
    /\ stext.alignment = "Center"
    /\ stext.rectangle.size.width = 41
    /\ Len(calls) = 3
    /\ calls[1].op = "draw_whitespace"
    /\ calls[2].op = "draw_string"
    /\ calls[3].op = "draw_whitespace"
    /\ calls[1].ret = calls[2].position
    /\ calls[3].position = calls[2].ret

\* C15: a draw that succeeds returns the cursor after the last line: y is the
\* anchor y of the last line, x is the end its draw_string returned, or the
\* right x of the rectangle when that end was left of it (a trailing pad was
\* drawn).
C15_ReturnsLastLineCursor ==
    (sq.op = "draw" /\ ~sq.err) =>
        LET last == StringCalls[Len(StringCalls)]
            right_x == stext.rectangle.top_left.x + stext.rectangle.size.width
        IN  /\ sq.ret.y = last.position.y
            /\ sq.ret.x = IF last.ret.x < right_x THEN right_x ELSE last.ret.x
            /\ (last.ret.x < right_x) = (calls[Len(calls)].op = "draw_whitespace")

\* C15 witness: "c\na" drawn left aligned with the 16x32 and 6x12 fonts in the
\* rectangle of width 10: the first line ends at x = 19, the second at x = 8,
\* padded to the right x 12; the cursor returned is the second line's
C15_Witness ==
    /\ sq.op = "draw"
    /\ ~sq.err
    /\ stext.text = <<99, LF, 97>>
    /\ stext.alignment = "Left"
    /\ stext.rectangle.size.width = 10
    /\ Len(stext.character_style.fonts) = 2
    /\ Len(StringCalls) = 2
    /\ StringCalls[1].ret.x = 19
    /\ StringCalls[2].ret.x = 8
    /\ sq.ret.x = 12
    /\ sq.ret.y = StringCalls[2].position.y
    /\ sq.ret.y # StringCalls[1].position.y

(***************************************************************************)
(* Claims about errors of the surface (checked under SpecStaticFaulty).    *)
(***************************************************************************)
\* the same rows of two call records but for what was returned
SameCall(a, b) ==
    /\ a.op = b.op
    /\ a.text = b.text
    /\ a.width = b.width
    /\ a.position = b.position

\* C13: when a call of draw on the character style returns an error, it is the
\* last call draw makes and draw returns the error; draw returns an error only
\* then; the surface has received exactly the calls an error-free draw makes up
\* to the failing one, none after it, and the character style the calls of the
\* error-free draw up to the failing one.
C13_ErrorEndsTheDraw ==
    sq.op = "draw" =>
        /\ \A i \in 1..Len(calls) : calls[i].err => (i = Len(calls) /\ sq.err)
        /\ sq.err => (Len(calls) > 0 /\ calls[Len(calls)].err)
        /\ (faulty_call \in 1..Len(draw(stext, 0).writes)) => sq.err
        /\ sq.err =>
               /\ Len(target) = faulty_call
               /\ target = SubSeq(draw(stext, 0).writes, 1, faulty_call)
               /\ Len(calls) <= Len(draw(stext, 0).calls)
               /\ \A i \in 1..Len(calls) : SameCall(calls[i], draw(stext, 0).calls[i])

\* C13 witness: the second call on the surface fails while a line is still to
\* be drawn: draw returns the error after two calls on the surface and the
\* later line is not drawn
C13_Witness ==
    /\ sq.op = "draw"
    /\ sq.err
    /\ faulty_call = 2
    /\ Len(target) = 2
    /\ Len(StringCalls) < Len(split(stext.text))
    /\ Len(draw(stext, 0).writes) > 2

(***************************************************************************)
(* Claims about the colour adapter (checked under SpecAdapter).            *)
(***************************************************************************)
\* the colour in which the adapter is to forward a binary colour
ForwardedColour(c) ==
    IF c = "On" THEN adapter.text_color ELSE adapter.background_color

\* the input pixels of the fill_contiguous call that are to reach the parent:
\* the "on" pixels, and the "off" pixels when a background colour is configured
ToForward ==
    {i \in 1..Len(aq.colors) :
        /\ i <= PointCount(aq.area)
        /\ aq.colors[i] = "On" \/ adapter.background_color # "None"}

\* C19: fill_solid reaches the parent as one fill of the same area, in the text
\* colour for "on" and in the background colour for "off"; with no background
\* colour an "off" fill makes no call on the parent and returns Ok.
\* fill_contiguous hands the parent, in their order and at their positions, the
\* "on" pixels in the text colour and the "off" pixels in the background
\* colour; with no background colour the "off" pixels are left out, so none
\* reaches the parent in the text colour.
C19_AdapterForwardsConfiguredColours ==
    /\ aq.op = "fill_solid" =>
           IF aq.color = "Off" /\ adapter.background_color = "None"
           THEN target = <<>> /\ aq.ret = "Ok"
           ELSE /\ Len(target) = 1
                /\ target[1].op = "fill_solid"
                /\ target[1].area = aq.area
                /\ target[1].on = ForwardedColour(aq.color)
    /\ aq.op = "fill_contiguous" =>
           /\ Len(target) = 1
           /\ target[1].op = "draw_iter"
           /\ Len(target[1].pixels) = Cardinality(ToForward)
           /\ \A i \in ToForward :
                  LET j == Cardinality({h \in ToForward : h <= i})
                  IN  /\ target[1].pixels[j].pos = PointAt(aq.area, i)
                      /\ target[1].pixels[j].color = ForwardedColour(aq.colors[i])

\* C19 witness: on, off, on given for the three points of a row with no
\* background colour: the first and the third pixel reach the parent, in the
\* text colour and at their positions
C19_Witness ==
    /\ aq.op = "fill_contiguous"
    /\ adapter.background_color = "None"
    /\ aq.colors = <<"On", "Off", "On">>
    /\ aq.area = Rectangle(Point(0, 0), Size(3, 1))
    /\ target[1].pixels = <<[pos |-> Point(0, 0), color |-> "Yellow"],
                            [pos |-> Point(2, 0), color |-> "Yellow"]>>

====
